---------------------------- MODULE Spec2Model ----------------------------
(***************************************************************************)
(* Model of the activity store of kinder-activities: the row codec, the    *)
(* row locator and the Store Client of netlify/lib/sheets.js, and the      *)
(* request handlers of netlify/functions built on them.                    *)
(*                                                                         *)
(* Representation.                                                         *)
(*  - A JavaScript string is a sequence of one-character strings, so that  *)
(*    String(), parseInt() and trim() are computed character by character. *)
(*    The empty string is << >>.                                           *)
(*  - A JavaScript number x is the integer 10*x (one decimal digit), so    *)
(*    that 4.5 is representable; NaN is a value of its own.                *)
(*  - A JavaScript value is a record [t, n, s, a]: t its type tag, n the   *)
(*    number (or 1/0 for a boolean), s the string, a the array elements.   *)
(*  - An activity object is a function from the names of the properties it *)
(*    has to their values; a property that is absent is not in its domain. *)
(*  - The sheet is a sequence of rows, the header row first; a row is a    *)
(*    sequence of 15 cells, each a string; an empty cell is << >>.  The    *)
(*    Sheets API leaves an empty cell out of what it returns, which the    *)
(*    code reads as undefined.                                             *)
(***************************************************************************)
EXTENDS Integers, Sequences, FiniteSets, TLC

VARIABLES
    table,   \* the sheet: <<header row, data row, ...>>
    last,    \* the operation or request handled last, with its outcome
    ret,     \* what the last Store Client operation returned
    calls,   \* backing-store calls of the last operation: [reads, writes]
    resp,    \* the HTTP response of the last request
    keyClash, \* history: some operation so far inserted a url that was already
              \* the key of a data row, or wrote the url column of a row
    env,     \* process.env: which of the two credentials are set
    procs    \* the updateActivityField calls in progress, one per caller, for
             \* the runs in which the steps of two calls interleave

vars == <<table, last, ret, calls, resp, keyClash, env, procs>>

---------------------------------------------------------------------------
(* JavaScript values *)

JUndef == [t |-> "undefined", n |-> 0, s |-> <<>>, a |-> <<>>]
JNull == [t |-> "null", n |-> 0, s |-> <<>>, a |-> <<>>]
JNaN == [t |-> "NaN", n |-> 0, s |-> <<>>, a |-> <<>>]
JNum(x) == [t |-> "number", n |-> x, s |-> <<>>, a |-> <<>>]
JBool(b) == [t |-> "boolean", n |-> IF b THEN 1 ELSE 0, s |-> <<>>, a |-> <<>>]
JStr(str) == [t |-> "string", n |-> 0, s |-> str, a |-> <<>>]
JArr(elems) == [t |-> "array", n |-> 0, s |-> <<>>, a |-> elems]

JTrue == JBool(TRUE)
JFalse == JBool(FALSE)

\* Truthy with the empty string taken as true: the test  url === undefined
\* in place of  !url.
TruthyEmptyString(v) ==
    /\ v.t \notin {"undefined", "null", "NaN"}
    /\ (v.t = "number" => v.n # 0)
    /\ (v.t = "boolean" => v.n = 1)

\* ToBoolean: what `if (v)`, `!v` and `v || d` test.
Truthy(v) ==
    CASE v.t = "undefined" -> FALSE
      [] v.t = "null" -> FALSE
      [] v.t = "NaN" -> FALSE
      [] v.t = "number" -> v.n # 0
      [] v.t = "boolean" -> v.n = 1
      [] v.t = "string" -> v.s # <<>>
      [] OTHER -> TRUE

DigitChars == <<"0", "1", "2", "3", "4", "5", "6", "7", "8", "9">>

IsDigit(c) == \E d \in 1..Len(DigitChars) : DigitChars[d] = c

DigitVal(c) == (CHOOSE d \in 1..Len(DigitChars) : DigitChars[d] = c) - 1

WhiteSpace == {" ", "\t", "\n", "\r"}

RECURSIVE IntToDigits(_)
IntToDigits(k) ==
    IF k < 10 THEN <<DigitChars[k + 1]>>
    ELSE IntToDigits(k \div 10) \o <<DigitChars[(k % 10) + 1]>>

\* Number::toString of the number x/10.
Magnitude(m) ==
    IntToDigits(m \div 10)
    \o (IF m % 10 = 0 THEN <<>> ELSE <<".", DigitChars[(m % 10) + 1]>>)

NumToString(x) == IF x < 0 THEN <<"-">> \o Magnitude(-x) ELSE Magnitude(x)

RECURSIVE TrimLeft(_)
TrimLeft(str) ==
    IF str # <<>> /\ Head(str) \in WhiteSpace THEN TrimLeft(Tail(str)) ELSE str

RECURSIVE TrimRight(_)
TrimRight(str) ==
    IF str # <<>> /\ str[Len(str)] \in WhiteSpace
    THEN TrimRight(SubSeq(str, 1, Len(str) - 1))
    ELSE str

\* String.prototype.trim
Trim(str) == TrimRight(TrimLeft(str))

RECURSIVE DigitPrefix(_)
DigitPrefix(str) ==
    IF str # <<>> /\ IsDigit(Head(str)) THEN <<Head(str)>> \o DigitPrefix(Tail(str))
    ELSE <<>>

RECURSIVE DigitsToInt(_)
DigitsToInt(ds) ==
    IF ds = <<>> THEN 0
    ELSE 10 * DigitsToInt(SubSeq(ds, 1, Len(ds) - 1)) + DigitVal(ds[Len(ds)])

\* The sign of a numeric text and the text after the sign.
IsNegative(str) == str # <<>> /\ Head(str) = "-"

Unsigned(str) == IF str # <<>> /\ Head(str) \in {"-", "+"} THEN Tail(str) ELSE str

Signed(neg, magnitude) == JNum(IF neg THEN -magnitude ELSE magnitude)

IntegerOf(neg, ds) == IF ds = <<>> THEN JNaN ELSE Signed(neg, 10 * DigitsToInt(ds))

ParseIntTrimmed(str) == IntegerOf(IsNegative(str), DigitPrefix(Unsigned(str)))

\* parseInt(str, 10): leading white space, an optional sign, then the longest
\* run of decimal digits; NaN when there is none.
ParseInt(str) == ParseIntTrimmed(TrimLeft(str))

\* The digits of the fraction that starts str, << >> when none does.
FractionDigits(str) ==
    IF str # <<>> /\ Head(str) = "." THEN DigitPrefix(Tail(str)) ELSE <<>>

\* The length of the fraction that starts str, its "." counted.
FractionLength(str, fs) == IF str # <<>> /\ Head(str) = "." THEN 1 + Len(fs) ELSE 0

\* The number with whole digits ds and fraction digits fs, to the one decimal
\* digit the model keeps.
DecimalOf(neg, ds, fs) ==
    IF ds = <<>> /\ fs = <<>> THEN JNaN
    ELSE Signed(neg, 10 * DigitsToInt(ds) + (IF fs = <<>> THEN 0 ELSE DigitVal(fs[1])))

DecimalAfter(neg, str, ds) ==
    DecimalOf(neg, ds, FractionDigits(SubSeq(str, Len(ds) + 1, Len(str))))

ParseFloatUnsigned(neg, str) == DecimalAfter(neg, str, DigitPrefix(str))

ParseFloatTrimmed(str) == ParseFloatUnsigned(IsNegative(str), Unsigned(str))

\* parseFloat(str): as parseInt, then an optional "." and digits.
\* ParseFloat that stops at the decimal point: parseInt(text, 10)
ParseFloatWhole(str) == ParseInt(str)

ParseFloat(str) == ParseFloatTrimmed(TrimLeft(str))

\* The decimal literal that is the whole of str, NaN when str is none.
WholeDecimal(neg, str, ds, fs) ==
    IF Len(ds) + FractionLength(SubSeq(str, Len(ds) + 1, Len(str)), fs) = Len(str)
    THEN DecimalOf(neg, ds, fs)
    ELSE JNaN

LiteralAfter(neg, str, ds) ==
    WholeDecimal(neg, str, ds, FractionDigits(SubSeq(str, Len(ds) + 1, Len(str))))

LiteralUnsigned(neg, str) == LiteralAfter(neg, str, DigitPrefix(str))

LiteralTrimmed(str) ==
    IF str = <<>> THEN JNum(0) ELSE LiteralUnsigned(IsNegative(str), Unsigned(str))

\* StringToNumber: the whole trimmed text must be a decimal literal (a sign,
\* digits, a fraction); the empty text is 0.  Exponents, hexadecimal literals
\* and "Infinity" are not among the model's inputs.
StringToNumber(str) == LiteralTrimmed(Trim(str))

\* ToNumber, as the relational operators apply it to their operands.  An
\* array converts through its join(","): [] is "", [x] is x.
ToNumber(v) ==
    CASE v.t = "undefined" -> JNaN
      [] v.t = "null" -> JNum(0)
      [] v.t = "NaN" -> JNaN
      [] v.t = "number" -> v
      [] v.t = "boolean" -> JNum(10 * v.n)
      [] v.t = "string" -> StringToNumber(v.s)
      [] v.t = "array" /\ v.a = <<>> -> JNum(0)
      [] v.t = "array" /\ Len(v.a) = 1 -> StringToNumber(v.a[1])
      [] OTHER -> JNaN

NumLess(x, k) == x.t = "number" /\ x.n < 10 * k

NumGreater(x, k) == x.t = "number" /\ x.n > 10 * k

\* JsLess with the bound one too low: rating < 0
JsLessOneLower(v, k) == NumLess(ToNumber(v), k - 1)

\* v < k and v > k for a number k: false when v converts to NaN.
JsLess(v, k) == NumLess(ToNumber(v), k)

JsGreater(v, k) == NumGreater(ToNumber(v), k)

RECURSIVE Join(_)
Join(elems) ==
    IF elems = <<>> THEN <<>>
    ELSE IF Len(elems) = 1 THEN elems[1]
    ELSE elems[1] \o <<",">> \o Join(Tail(elems))

\* String(v)
JsString(v) ==
    CASE v.t = "undefined" -> <<"u", "n", "d", "e", "f", "i", "n", "e", "d">>
      [] v.t = "null" -> <<"n", "u", "l", "l">>
      [] v.t = "NaN" -> <<"N", "a", "N">>
      [] v.t = "number" -> NumToString(v.n)
      [] v.t = "boolean" ->
            IF v.n = 1 THEN <<"t", "r", "u", "e">> ELSE <<"f", "a", "l", "s", "e">>
      [] v.t = "string" -> v.s
      [] OTHER -> Join(v.a)

RECURSIVE QuoteAll(_)
QuoteAll(elems) ==
    IF elems = <<>> THEN <<>>
    ELSE <<<<"\"">> \o elems[1] \o <<"\"">>>> \o QuoteAll(Tail(elems))

\* JSON.stringify of an array of strings, a string, a number or a boolean (none
\* of the model's strings holds a character JSON escapes).
JsonStringify(v) ==
    CASE v.t = "array" -> <<"[">> \o Join(QuoteAll(v.a)) \o <<"]">>
      [] v.t = "string" -> <<"\"">> \o v.s \o <<"\"">>
      [] OTHER -> JsString(v)

\* The position of the first c in str, 0 when there is none.
RECURSIVE IndexOf(_, _)

Shifted(k) == IF k = 0 THEN 0 ELSE k + 1

IndexOf(str, c) ==
    IF str = <<>> THEN 0
    ELSE IF Head(str) = c THEN 1
    ELSE Shifted(IndexOf(Tail(str), c))

NoElems == [ok |-> FALSE, elems |-> <<>>]

\* The elements of a JSON array of strings after its "[": [ok, elems].
RECURSIVE JsonElems(_, _)

Prepend(el, more) == [ok |-> more.ok, elems |-> <<el>> \o more.elems]

\* After an element el: "]" ends the array, "," brings the next element.
JsonAfterElement(el, after) ==
    IF after = <<>> THEN NoElems
    ELSE IF Head(after) = "]" THEN [ok |-> TrimLeft(Tail(after)) = <<>>, elems |-> <<el>>]
    ELSE IF Head(after) = "," THEN Prepend(el, JsonElems(Tail(after), FALSE))
    ELSE NoElems

\* A string element whose text starts body and whose closing quote is at q.
JsonElement(body, q) ==
    IF q = 0 \/ IndexOf(SubSeq(body, 1, q - 1), "\\") # 0 THEN NoElems
    ELSE JsonAfterElement(SubSeq(body, 1, q - 1), TrimLeft(SubSeq(body, q + 1, Len(body))))

JsonQuoted(body) == JsonElement(body, IndexOf(body, "\""))

JsonElemsTrimmed(str, first) ==
    IF str = <<>> THEN NoElems
    ELSE IF first /\ Head(str) = "]" THEN [ok |-> TrimLeft(Tail(str)) = <<>>, elems |-> <<>>]
    ELSE IF Head(str) # "\"" THEN NoElems
    ELSE JsonQuoted(Tail(str))

JsonElems(str, first) == JsonElemsTrimmed(TrimLeft(str), first)

Parsed(v) == [ok |-> TRUE, v |-> v]

NotParsed == [ok |-> FALSE, v |-> JUndef]

JsonArray(arr) == IF arr.ok THEN Parsed(JArr(arr.elems)) ELSE NotParsed

\* A JSON integer: a decimal literal without "+" and without a fraction.
JsonNumber(str, num) ==
    IF num.t = "number" /\ Head(str) # "+" /\ IndexOf(str, ".") = 0 THEN Parsed(num)
    ELSE NotParsed

JsonParseTrimmed(str) ==
    IF str = <<>> THEN NotParsed
    ELSE IF Head(str) = "[" THEN JsonArray(JsonElems(Tail(str), TRUE))
    ELSE IF str = <<"t", "r", "u", "e">> THEN Parsed(JTrue)
    ELSE IF str = <<"f", "a", "l", "s", "e">> THEN Parsed(JFalse)
    ELSE IF str = <<"n", "u", "l", "l">> THEN Parsed(JNull)
    ELSE JsonNumber(str, LiteralTrimmed(str))

\* JSON.parse: [ok, v], ok false when it throws.  The texts the model parses are
\* arrays of strings, integers, true, false and null; a string element with an
\* escape sequence and any other JSON text are outside the model's inputs.
JsonParse(str) == JsonParseTrimmed(Trim(str))

\* str.split(',').map(s => s.trim())
RECURSIVE SplitTrim(_)

SplitAt(str, k) ==
    IF k = 0 THEN <<Trim(str)>>
    ELSE <<Trim(SubSeq(str, 1, k - 1))>> \o SplitTrim(SubSeq(str, k + 1, Len(str)))

SplitTrim(str) == SplitAt(str, IndexOf(str, ","))

---------------------------------------------------------------------------
(* The row codec: sheets.js, COLUMNS to activityToRow *)

COLUMNS ==
    [url |-> 0, shortName |-> 1, alive |-> 2, lastUpdated |-> 3, category |-> 4,
     openHours |-> 5, address |-> 6, services |-> 7, description |-> 8,
     userRating |-> 9, drivingMinutes |-> 10, transitMinutes |-> 11,
     distanceKm |-> 12, userComment |-> 13, userRemoved |-> 14]

HEADER_ROW ==
    << <<"u", "r", "l">>,
       <<"s", "h", "o", "r", "t", "N", "a", "m", "e">>,
       <<"a", "l", "i", "v", "e">>,
       <<"l", "a", "s", "t", "U", "p", "d", "a", "t", "e", "d">>,
       <<"c", "a", "t", "e", "g", "o", "r", "y">>,
       <<"o", "p", "e", "n", "H", "o", "u", "r", "s">>,
       <<"a", "d", "d", "r", "e", "s", "s">>,
       <<"s", "e", "r", "v", "i", "c", "e", "s">>,
       <<"d", "e", "s", "c", "r", "i", "p", "t", "i", "o", "n">>,
       <<"u", "s", "e", "r", "R", "a", "t", "i", "n", "g">>,
       <<"d", "r", "i", "v", "i", "n", "g", "M", "i", "n", "u", "t", "e", "s">>,
       <<"t", "r", "a", "n", "s", "i", "t", "M", "i", "n", "u", "t", "e", "s">>,
       <<"d", "i", "s", "t", "a", "n", "c", "e", "K", "m">>,
       <<"u", "s", "e", "r", "C", "o", "m", "m", "e", "n", "t">>,
       <<"u", "s", "e", "r", "R", "e", "m", "o", "v", "e", "d">> >>
\* TrueText as the sheet renders a boolean cell
TrueTextUpper == <<"T", "R", "U", "E">>


TrueText == <<"t", "r", "u", "e">>
FalseText == <<"f", "a", "l", "s", "e">>

\* row[COLUMNS.f]
Cell(row, f) == row[COLUMNS[f] + 1]

\* activity.f: undefined when the object has no such property
Prop(activity, f) == IF f \in DOMAIN activity THEN activity[f] ELSE JUndef

\* What rowToActivity returns for a row without a url: null.
NoActivity == [null |-> TRUE]

IsActivity(x) == "url" \in DOMAIN x

\* One optional property: set only when the cell is not empty.
Optional(row, f, v) == IF Cell(row, f) # <<>> THEN f :> v ELSE <<>>

\* try { JSON.parse(text) } catch { text.split(',').map(s => s.trim()) }
ParsedOrSplit(parsed, text) == IF parsed.ok THEN parsed.v ELSE JArr(SplitTrim(text))

ParseServices(text) == ParsedOrSplit(JsonParse(text), text)

rowToActivity(row) ==
    IF Cell(row, "url") = <<>> THEN NoActivity
    ELSE [url |-> JStr(Cell(row, "url")),
          shortName |-> JStr(Cell(row, "shortName")),
          alive |-> JBool(Cell(row, "alive") = TrueText),
          lastUpdated |-> JStr(Cell(row, "lastUpdated"))]
         @@ Optional(row, "category", JStr(Cell(row, "category")))
         @@ Optional(row, "openHours", JStr(Cell(row, "openHours")))
         @@ Optional(row, "address", JStr(Cell(row, "address")))
         @@ Optional(row, "services", ParseServices(Cell(row, "services")))
         @@ Optional(row, "description", JStr(Cell(row, "description")))
         @@ Optional(row, "userRating", ParseInt(Cell(row, "userRating")))
         @@ Optional(row, "drivingMinutes", ParseInt(Cell(row, "drivingMinutes")))
         @@ Optional(row, "transitMinutes", ParseInt(Cell(row, "transitMinutes")))
         @@ Optional(row, "distanceKm", ParseFloat(Cell(row, "distanceKm")))
         @@ Optional(row, "userComment", JStr(Cell(row, "userComment")))
         @@ (IF Cell(row, "userRemoved") = TrueText THEN "userRemoved" :> JTrue ELSE <<>>)

\* v || '' as the text of the cell it is written to
OrEmpty(v) == IF Truthy(v) THEN JsString(v) ELSE <<>>

\* v != null ? String(v) : ''
StringOrEmpty(v) == IF v.t \in {"null", "undefined"} THEN <<>> ELSE JsString(v)

activityToRow(activity) ==
    << OrEmpty(Prop(activity, "url")),
       OrEmpty(Prop(activity, "shortName")),
       IF Truthy(Prop(activity, "alive")) THEN TrueText ELSE FalseText,
       OrEmpty(Prop(activity, "lastUpdated")),
       OrEmpty(Prop(activity, "category")),
       OrEmpty(Prop(activity, "openHours")),
       OrEmpty(Prop(activity, "address")),
       IF Truthy(Prop(activity, "services"))
       THEN JsonStringify(Prop(activity, "services")) ELSE <<>>,
       OrEmpty(Prop(activity, "description")),
       StringOrEmpty(Prop(activity, "userRating")),
       StringOrEmpty(Prop(activity, "drivingMinutes")),
       StringOrEmpty(Prop(activity, "transitMinutes")),
       StringOrEmpty(Prop(activity, "distanceKm")),
       OrEmpty(Prop(activity, "userComment")),
       IF Truthy(Prop(activity, "userRemoved")) THEN TrueText ELSE <<>> >>

---------------------------------------------------------------------------
(* The Store Client: sheets.js, getAllActivities to updateActivity *)

\* What a read of one cell returns: the API leaves an empty cell out, and the
\* code reads undefined.
CellValue(c) == IF c = <<>> THEN JUndef ELSE JStr(c)

\* Array.prototype.find on a list of activities: the first with that url,
\* undefined when there is none.
Undefined == [undefined |-> TRUE]

RECURSIVE FindByUrl(_, _)
FindByUrl(activities, url) ==
    IF activities = <<>> THEN Undefined
    ELSE IF activities[1]["url"] = url THEN activities[1]
    ELSE FindByUrl(Tail(activities), url)

\* The rows of range Sheet1!A2:O, the header row skipped.
DataRows(tbl) == SubSeq(tbl, 2, Len(tbl))

\* Keep without the test of userRemoved: .filter(a => a)
KeepNotNull(a) == IsActivity(a)

Keep(a) == IsActivity(a) /\ ~Truthy(Prop(a, "userRemoved"))

\* rows.map(rowToActivity)
Decode(rows) == [k \in 1..Len(rows) |-> rowToActivity(rows[k])]

getAllActivities(tbl) == SelectSeq(Decode(DataRows(tbl)), Keep)

\* The loop of findActivityRowIndex from 0-based index i: rows[i][0] === url,
\* answered as i + 1, which is the row's position in tbl; 0 stands for null.
RECURSIVE ScanFrom(_, _, _)
ScanFrom(tbl, i, url) ==
    IF ~(i < Len(tbl)) THEN 0
    ELSE IF CellValue(tbl[i + 1][1]) = url THEN i + 1
    ELSE ScanFrom(tbl, i + 1, url)

\* findActivityRowIndex with the loop started at the header row: i = 0
findActivityRowIndexFromHeader(tbl, url) == ScanFrom(tbl, 0, url)

findActivityRowIndex(tbl, url) == ScanFrom(tbl, 1, url)

getActivityByUrl(tbl, url) == FindByUrl(getAllActivities(tbl), url)

\* Property names every object inherits from Object.prototype: COLUMNS[field]
\* is not undefined for them.
ObjectPrototypeKeys ==
    {"constructor", "toString", "valueOf", "hasOwnProperty", "isPrototypeOf",
     "propertyIsEnumerable", "toLocaleString", "__proto__"}

\* COLUMNS[field]
ColumnLookup(field) ==
    IF field \in DOMAIN COLUMNS THEN [kind |-> "index", idx |-> COLUMNS[field]]
    ELSE IF field \in ObjectPrototypeKeys THEN [kind |-> "inherited", idx |-> 0]
    ELSE [kind |-> "undefined", idx |-> 0]

\* FormatCell without the boolean branch written as text: the sheet's own
\* rendering of a boolean is upper case.
FormatCellRawBoolean(value) ==
    IF value.t \in {"null", "undefined"} THEN <<>>
    ELSE IF value.t = "boolean"
         THEN (IF value.n = 1 THEN <<"T", "R", "U", "E">> ELSE <<"F", "A", "L", "S", "E">>)
    ELSE IF value.t = "array" THEN JsonStringify(value)
    ELSE JsString(value)

\* FormatCell without the null branch: String(null) is written.
FormatCellNoNull(value) ==
    IF value.t = "boolean" THEN (IF value.n = 1 THEN TrueText ELSE FalseText)
    ELSE IF value.t = "array" THEN JsonStringify(value)
    ELSE JsString(value)

\* FormatCell with JSON.stringify for every value that is not null: a string
\* is written with its quotes.
FormatCellAsJson(value) ==
    IF value.t \in {"null", "undefined"} THEN <<>> ELSE JsonStringify(value)

\* Format value for sheets
FormatCell(value) ==
    IF value.t \in {"null", "undefined"} THEN <<>>
    ELSE IF value.t = "boolean" THEN (IF value.n = 1 THEN TrueText ELSE FalseText)
    ELSE IF value.t = "array" THEN JsonStringify(value)
    ELSE JsString(value)

NotFoundError == "Activity not found"
UnknownFieldError == "Unknown field"
StoreError == "Store error"

NoCalls == [reads |-> 0, writes |-> 0]

Threw(tbl, err, r, w) ==
    [table |-> tbl, ret |-> [kind |-> "error", error |-> err],
     calls |-> [reads |-> r, writes |-> w]]

Returned(tbl, x, r, w) ==
    [table |-> tbl,
     ret |-> IF "undefined" \in DOMAIN x THEN [kind |-> "undefined"]
             ELSE [kind |-> "activity", activity |-> x],
     calls |-> [reads |-> r, writes |-> w]]

\* process.env as the Store Client reads it: whether each of
\* GOOGLE_SERVICE_ACCOUNT_EMAIL, GOOGLE_PRIVATE_KEY and GOOGLE_SHEETS_ID is set
\* to a string that is not empty.
Environments == [email : BOOLEAN, key : BOOLEAN, sheetsId : BOOLEAN]

Deployed == [email |-> TRUE, key |-> TRUE, sheetsId |-> TRUE]

ConfigError == "Missing GOOGLE_SERVICE_ACCOUNT_EMAIL or GOOGLE_PRIVATE_KEY"

\* getAuthClient testing the email alone: if (!clientEmail)
getAuthClientEmailOnly(environment) ==
    IF ~environment.email
    THEN [kind |-> "error", error |-> ConfigError]
    ELSE [kind |-> "client"]

getAuthClient(environment) ==
    IF ~environment.email \/ ~environment.key
    THEN [kind |-> "error", error |-> ConfigError]
    ELSE [kind |-> "client"]

getSheetsApi(environment) == getAuthClient(environment)

\* The first statements of an operation: const sheets = await getSheetsApi()
\* and const spreadsheetId = process.env.GOOGLE_SHEETS_ID.  The operation ends
\* with what getSheetsApi threw; or, the spreadsheet id undefined, with the
\* failure of its first call (r reads, w writes); or goes on to its outcome.
WithSheets(tbl, r, w, outcome) ==
    IF getSheetsApi(env).kind = "error" THEN Threw(tbl, ConfigError, 0, 0)
    ELSE IF ~env.sheetsId THEN Threw(tbl, StoreError, r, w)
    ELSE outcome

\* What a call of getAllActivities comes to: the list, after one read.
Fetched(tbl) ==
    WithSheets(tbl, 1, 0,
               [table |-> tbl,
                ret |-> [kind |-> "list", list |-> getAllActivities(tbl)],
                calls |-> [reads |-> 1, writes |-> 0]])

\* What a call of getActivityByUrl comes to.
Found(tbl, url) ==
    WithSheets(tbl, 1, 0, Returned(tbl, getActivityByUrl(tbl, url), 1, 0))

\* WriteCell with the column letter one too far: fromCharCode(66 + columnIndex)
WriteCellNextColumn(tbl, rowIndex, columnIndex, cellValue) ==
    [tbl EXCEPT ![rowIndex][columnIndex + 2] = cellValue]

\* values.update of one cell, RAW
WriteCell(tbl, rowIndex, columnIndex, cellValue) ==
    [tbl EXCEPT ![rowIndex][columnIndex + 1] = cellValue]

\* ReadBack through getActivityByUrl after locating the row once more: one
\* read more.
ReadBackRelocated(written, url) ==
    Returned(written, getActivityByUrl(written, url), 3, 1)

\* Return the updated activity: getAllActivities again, and find.
ReadBack(written, url) == Returned(written, getActivityByUrl(written, url), 2, 1)

\* The steps of updateActivityField after the column lookup.  For an inherited
\* property name the column letter is String.fromCharCode(NaN) and the range
\* names no cell: the update call is issued and the store refuses it.
UpdateColumn(tbl, rowIndex, column, url, value) ==
    IF column.kind = "undefined" THEN Threw(tbl, UnknownFieldError, 1, 0)
    ELSE IF column.kind = "inherited" THEN Threw(tbl, StoreError, 1, 1)
    ELSE ReadBack(WriteCell(tbl, rowIndex, column.idx, FormatCell(value)), url)

\* UpdateAt without the test of rowIndex: the range of a null row names no
\* cell, and the store refuses the update call.
UpdateAtUnchecked(tbl, rowIndex, url, field, value) ==
    IF rowIndex = 0 THEN Threw(tbl, StoreError, 1, 1)
    ELSE UpdateColumn(tbl, rowIndex, ColumnLookup(field), url, value)

\* The steps of updateActivityField after the row lookup.
UpdateAt(tbl, rowIndex, url, field, value) ==
    IF rowIndex = 0 THEN Threw(tbl, NotFoundError, 1, 0)
    ELSE UpdateColumn(tbl, rowIndex, ColumnLookup(field), url, value)

\* updateActivityField: the table it leaves, what it returns or throws, and the
\* backing-store calls it made.
updateActivityField(tbl, url, field, value) ==
    WithSheets(tbl, 1, 0, UpdateAt(tbl, findActivityRowIndex(tbl, url), url, field, value))

\* markActivityRemoved writing the flag as false
markActivityRemovedAsFalse(tbl, url) ==
    updateActivityField(tbl, url, "userRemoved", JFalse)

\* The row at rowIndex is marked removed.
RemovedAt(tbl, rowIndex) == rowIndex # 0 /\ tbl[rowIndex][COLUMNS["userRemoved"] + 1] = TrueText

\* markActivityRemoved as a switch: a row marked removed is marked not removed.
markActivityRemovedSwitch(tbl, url) ==
    updateActivityField(tbl, url, "userRemoved",
                        IF RemovedAt(tbl, findActivityRowIndex(tbl, url)) THEN JFalse ELSE JTrue)

markActivityRemoved(tbl, url) == updateActivityField(tbl, url, "userRemoved", JTrue)

\* addActivity refusing a url that is already the key of a data row.
addActivityUnlessKeyed(tbl, activity) ==
    IF findActivityRowIndex(tbl, Prop(activity, "url")) # 0
    THEN Threw(tbl, StoreError, 1, 0)
    ELSE Returned(Append(tbl, activityToRow(activity)), activity, 1, 1)

\* addActivity putting the row first, under the header: the rows move down.
addActivityAtTop(tbl, activity) ==
    WithSheets(tbl, 0, 1,
               Returned(<<tbl[1], activityToRow(activity)>> \o Tail(tbl), activity, 0, 1))

\* values.append: the row goes after the last row of the table.
addActivity(tbl, activity) ==
    WithSheets(tbl, 0, 1,
               Returned(Append(tbl, activityToRow(activity)), activity, 0, 1))

\* Merge in which the current activity wins: { ...updates, ...currentActivity }
MergeCurrentWins(currentActivity, updates) ==
    IF IsActivity(currentActivity) THEN currentActivity @@ updates ELSE updates

\* { ...currentActivity, ...updates }
Merge(currentActivity, updates) ==
    IF IsActivity(currentActivity) THEN updates @@ currentActivity ELSE updates

\* WriteMerged with the 0-based index of the loop as the row number: the row
\* above the located one is overwritten.
WriteMergedRowAbove(tbl, rowIndex, updatedActivity) ==
    Returned([tbl EXCEPT ![rowIndex - 1] = activityToRow(updatedActivity)],
             updatedActivity, 2, 1)

\* values.update of the whole row with the merged activity, which is returned.
WriteMerged(tbl, rowIndex, updatedActivity) ==
    Returned([tbl EXCEPT ![rowIndex] = activityToRow(updatedActivity)],
             updatedActivity, 2, 1)

\* The steps of updateActivity after the row lookup.
MergeAt(tbl, rowIndex, updates) ==
    IF rowIndex = 0 THEN Threw(tbl, NotFoundError, 1, 0)
    ELSE WriteMerged(tbl, rowIndex, Merge(rowToActivity(tbl[rowIndex]), updates))

updateActivity(tbl, url, updates) ==
    WithSheets(tbl, 1, 0, MergeAt(tbl, findActivityRowIndex(tbl, url), updates))

---------------------------------------------------------------------------
(* The request handlers: netlify/functions *)

\* An event is [httpMethod, body]; a body is [parses, url, value]: whether
\* JSON.parse(event.body) returns an object, and that object's url and its
\* rating or comment (undefined when the body has no such field).

CorsOnly == "Access-Control-Allow-Origin" :> "*"

\* Preflight with one list of methods for every route.
PreflightSameMethods(methods) ==
    [statusCode |-> 200,
     headers |-> CorsOnly @@ ("Access-Control-Allow-Headers" :> "Content-Type")
                          @@ ("Access-Control-Allow-Methods" :> "GET, PUT, DELETE, OPTIONS"),
     body |-> [empty |-> TRUE]]

\* Handle CORS preflight
Preflight(methods) ==
    [statusCode |-> 200,
     headers |-> CorsOnly @@ ("Access-Control-Allow-Headers" :> "Content-Type")
                          @@ ("Access-Control-Allow-Methods" :> methods),
     body |-> [empty |-> TRUE]]

Failure(status, message) ==
    [statusCode |-> status, headers |-> CorsOnly, body |-> [error |-> message]]

Success(body) ==
    [statusCode |-> 200,
     headers |-> CorsOnly @@ ("Content-Type" :> "application/json"),
     body |-> body]

\* An activity as JSON.stringify writes it: a property whose value is
\* undefined is left out, and NaN is written as null.
JsonView(activity) ==
    [f \in {g \in DOMAIN activity : activity[g].t # "undefined"} |->
        IF activity[f].t = "NaN" THEN JNull ELSE activity[f]]

\* { success: true, activity } as JSON.stringify writes it
ActivityEnvelope(r) ==
    IF r.kind = "activity" THEN [success |-> TRUE, activity |-> JsonView(r.activity)]
    ELSE [success |-> TRUE]

HttpOutcome(tbl, r, c, response) ==
    [table |-> tbl, ret |-> r, calls |-> c, resp |-> response]

NotCalled(tbl, response) == HttpOutcome(tbl, [kind |-> "none"], NoCalls, response)

\* Caught with every failure answered as not found.
CaughtAsNotFound(store, message) ==
    HttpOutcome(store.table, store.ret, store.calls, Failure(404, NotFoundError))

\* The catch block of the three write handlers.
Caught(store, message) ==
    HttpOutcome(store.table, store.ret, store.calls,
                IF store.ret.error = NotFoundError
                THEN Failure(404, NotFoundError)
                ELSE Failure(500, message))

\* The end of the rating and comment handlers: the store's answer wrapped.
Answer(store, message) ==
    IF store.ret.kind = "error" THEN Caught(store, message)
    ELSE HttpOutcome(store.table, store.ret, store.calls,
                     Success(ActivityEnvelope(store.ret)))

updateRatingHandler(tbl, event) ==
    IF event.httpMethod = "OPTIONS" THEN NotCalled(tbl, Preflight("PUT, OPTIONS"))
    ELSE IF event.httpMethod # "PUT"
         THEN NotCalled(tbl, Failure(405, "Method not allowed"))
    ELSE IF ~event.body.parses
         THEN NotCalled(tbl, Failure(500, "Failed to update rating"))
    ELSE IF ~Truthy(event.body.url) THEN NotCalled(tbl, Failure(400, "URL is required"))
    ELSE IF event.body.value # JNull
            /\ (JsLess(event.body.value, 1) \/ JsGreater(event.body.value, 5))
         THEN NotCalled(tbl, Failure(400, "Rating must be between 1 and 5"))
    ELSE Answer(updateActivityField(tbl, event.body.url, "userRating", event.body.value),
                "Failed to update rating")

\* comment?.trim() || null; a comment that is neither a string nor null nor
\* undefined has no trim method, and the call throws.
OrNull(str) == IF str # <<>> THEN JStr(str) ELSE JNull

\* TrimmedComment without the trim: comment || null
TrimmedCommentKept(comment) == IF comment.t = "string" THEN OrNull(comment.s) ELSE JNull

TrimmedComment(comment) == IF comment.t = "string" THEN OrNull(Trim(comment.s)) ELSE JNull

updateCommentHandler(tbl, event) ==
    IF event.httpMethod = "OPTIONS" THEN NotCalled(tbl, Preflight("PUT, OPTIONS"))
    ELSE IF event.httpMethod # "PUT"
         THEN NotCalled(tbl, Failure(405, "Method not allowed"))
    ELSE IF ~event.body.parses
         THEN NotCalled(tbl, Failure(500, "Failed to update comment"))
    ELSE IF ~Truthy(event.body.url) THEN NotCalled(tbl, Failure(400, "URL is required"))
    ELSE IF event.body.value.t \notin {"string", "null", "undefined"}
         THEN NotCalled(tbl, Failure(500, "Failed to update comment"))
    ELSE Answer(updateActivityField(tbl, event.body.url, "userComment",
                                    TrimmedComment(event.body.value)),
                "Failed to update comment")

\* JSON.stringify(activities)
JsonList(activities) == [k \in 1..Len(activities) |-> JsonView(activities[k])]

\* The end of the list handler: the list as the body, or the catch block.
Listed(store) ==
    HttpOutcome(store.table, store.ret, store.calls,
                IF store.ret.kind = "error" THEN Failure(500, "Failed to load activities")
                ELSE Success(JsonList(store.ret.list)))

getActivitiesHandler(tbl, event) ==
    IF event.httpMethod = "OPTIONS" THEN NotCalled(tbl, Preflight("GET, OPTIONS"))
    ELSE IF event.httpMethod # "GET"
         THEN NotCalled(tbl, Failure(405, "Method not allowed"))
    ELSE Listed(Fetched(tbl))

\* The end of the remove handler.
AnswerRemoved(store, message) ==
    IF store.ret.kind = "error" THEN Caught(store, message)
    ELSE HttpOutcome(store.table, store.ret, store.calls,
                     Success([success |-> TRUE,
                              message |-> "Activity removed successfully"]))

removeActivityHandler(tbl, event) ==
    IF event.httpMethod = "OPTIONS" THEN NotCalled(tbl, Preflight("DELETE, OPTIONS"))
    ELSE IF event.httpMethod # "DELETE"
         THEN NotCalled(tbl, Failure(405, "Method not allowed"))
    ELSE IF ~event.body.parses
         THEN NotCalled(tbl, Failure(500, "Failed to remove activity"))
    ELSE IF ~Truthy(event.body.url) THEN NotCalled(tbl, Failure(400, "URL is required"))
    ELSE AnswerRemoved(markActivityRemoved(tbl, event.body.url),
                       "Failed to remove activity")

---------------------------------------------------------------------------
(* Inputs and bounds *)

\* The most data rows the sheet grows to.
MaxRows == 2

UrlA == <<"a">>
UrlB == <<"b">>

Urls == {JStr(UrlA), JStr(UrlB)}

\* An activity as the enrichment process appends it.
NewActivity(u) ==
    [url |-> JStr(u), shortName |-> JStr(<<"Z">>), alive |-> JTrue,
     lastUpdated |-> JStr(<<>>)]

NewActivities ==
    {NewActivity(UrlA), NewActivity(UrlB), NewActivity(<<>>),
     ("userRating" :> JNum(50)) @@ NewActivity(UrlB)}

\* (field, value) arguments of updateActivityField
FieldUpdates ==
    {<<"userRating", JNum(10)>>, <<"userRating", JNum(50)>>, <<"userRating", JNull>>,
     <<"userRemoved", JFalse>>, <<"url", JStr(UrlB)>>, <<"bogus", JNum(10)>>,
     <<"constructor", JNum(10)>>}

\* updates arguments of updateActivity
WholeUpdates == {"userRating" :> JNum(50), "userRating" :> JUndef}

NoResp == [statusCode |-> 0]

Op(name, url, field, value, arg) ==
    [op |-> name, method |-> "", url |-> url, field |-> field, value |-> value,
     arg |-> arg]

\* Some data row of tbl has the key url (a string that is not empty).
HasKey(tbl, url) ==
    \E k \in 2..Len(tbl) : tbl[k][1] # <<>> /\ JStr(tbl[k][1]) = url

---------------------------------------------------------------------------
(* The Store Client's operations, one action each.  An operation runs from *)
(* call to return in one step; its arguments and its outcome stay visible  *)
(* until the caller takes the result (Complete), and the next operation    *)
(* starts from there: nothing but the sheet is kept between two calls.     *)

Idle == Op("none", JUndef, "", JUndef, NoActivity)

\* The callers whose updateActivityField calls may overlap.
Callers == {1, 2}

\* No call in progress.  A call is [pc, url, field, value, rowIndex, ret],
\* for updateActivity also [updates, updatedActivity], and two history
\* fields: had, whether url was the key of a data row when the call started,
\* and wrote, the rank of its write among the writes so far.
NoCall ==
    [pc |-> "idle", url |-> JUndef, field |-> "", value |-> JUndef, rowIndex |-> 0,
     ret |-> [kind |-> "none"], had |-> FALSE, wrote |-> 0,
     updates |-> <<>>, updatedActivity |-> NoActivity]

NoProcs == [p \in Callers |-> NoCall]

Init ==
    /\ table = <<HEADER_ROW>>
    /\ last = Idle
    /\ ret = [kind |-> "none"]
    /\ calls = NoCalls
    /\ resp = NoResp
    /\ keyClash = FALSE
    /\ env = Deployed
    /\ procs = NoProcs

\* The sheet, the returned value and the call counts an operation leaves.
Apply(outcome) ==
    /\ table' = outcome.table
    /\ ret' = outcome.ret
    /\ calls' = outcome.calls

Complete ==
    /\ last # Idle
    /\ last' = Idle
    /\ ret' = [kind |-> "none"]
    /\ calls' = NoCalls
    /\ resp' = NoResp
    /\ UNCHANGED <<table, keyClash, env, procs>>

ReadAll ==
    /\ last = Idle
    /\ last' = Op("readAll", JUndef, "", JUndef, NoActivity)
    /\ Apply(Fetched(table))
    /\ UNCHANGED <<resp, keyClash, env, procs>>

ReadByKey ==
    \E url \in Urls :
        /\ last = Idle
        /\ last' = Op("readByKey", url, "", JUndef, NoActivity)
        /\ Apply(Found(table, url))
        /\ UNCHANGED <<resp, keyClash, env, procs>>

Insert ==
    \E activity \in NewActivities :
        /\ last = Idle
        /\ Len(table) - 1 < MaxRows
        /\ last' = Op("insert", activity["url"], "", JUndef, activity)
        /\ Apply(addActivity(table, activity))
        /\ keyClash' = (keyClash \/ HasKey(table, activity["url"]))
        /\ UNCHANGED <<resp, env, procs>>

UpdateField ==
    \E url \in Urls, fv \in FieldUpdates :
        /\ last = Idle
        /\ last' = Op("updateField", url, fv[1], fv[2], NoActivity)
        /\ Apply(updateActivityField(table, url, fv[1], fv[2]))
        /\ keyClash' = (keyClash \/ (fv[1] = "url" /\ HasKey(table, url)))
        /\ UNCHANGED <<resp, env, procs>>

UpdateWhole ==
    \E url \in Urls, updates \in WholeUpdates :
        /\ last = Idle
        /\ last' = Op("updateWhole", url, "", JUndef, updates)
        /\ Apply(updateActivity(table, url, updates))
        /\ keyClash' = (keyClash \/ ("url" \in DOMAIN updates /\ HasKey(table, url)))
        /\ UNCHANGED <<resp, env, procs>>

MarkRemoved ==
    \E url \in Urls :
        /\ last = Idle
        /\ last' = Op("markRemoved", url, "", JUndef, NoActivity)
        /\ Apply(markActivityRemoved(table, url))
        /\ UNCHANGED <<resp, keyClash, env, procs>>

Next ==
    \/ ReadAll
    \/ ReadByKey
    \/ Insert
    \/ UpdateField
    \/ UpdateWhole
    \/ MarkRemoved
    \/ Complete

Spec == Init /\ [][Next]_vars

---------------------------------------------------------------------------
(* The requests, one action per handler.  Rows come into the sheet by the   *)
(* enrichment process, which appends them.                                  *)

Body(u, v) == [parses |-> TRUE, url |-> u, value |-> v]

\* A body JSON.parse throws on, or returns no object for.
BadBody == [parses |-> FALSE, url |-> JUndef, value |-> JUndef]

Event(method, body) == [httpMethod |-> method, body |-> body]

\* The url field of a request body: absent, empty, the key of a row, no key.
BodyUrls == {JUndef, JStr(<<>>), JStr(UrlA), JStr(UrlB)}

RatingInputs ==
    {JNum(0), JNum(60), JNum(50), JNum(45), JNum(-10), JStr(<<"a", "b", "c">>),
     JStr(<<"9", "x">>), JTrue, JNull, JUndef}

CommentInputs ==
    {JStr(<<" ", "h", "i", " ">>), JStr(<<" ", " ">>), JNull, JUndef, JNum(10)}

\* Requests that do not reach the body's fields: preflight, a method the
\* route does not serve, a body that does not parse.
Unread(own, other) ==
    {Event("OPTIONS", BadBody), Event(other, BadBody), Event(own, BadBody)}

RatingEvents ==
    Unread("PUT", "GET")
    \cup {Event("PUT", Body(u, JNum(50))) : u \in BodyUrls}
    \cup {Event("PUT", Body(JStr(UrlA), r)) : r \in RatingInputs}

CommentEvents ==
    Unread("PUT", "GET")
    \cup {Event("PUT", Body(u, JNull)) : u \in BodyUrls}
    \cup {Event("PUT", Body(JStr(UrlA), c)) : c \in CommentInputs}

RemoveEvents ==
    Unread("DELETE", "GET") \cup {Event("DELETE", Body(u, JUndef)) : u \in BodyUrls}

ListEvents == {Event("OPTIONS", BadBody), Event("PUT", BadBody), Event("GET", BadBody)}

HttpOp(name, event) ==
    [op |-> name, method |-> event.httpMethod, url |-> event.body.url, field |-> "",
     value |-> event.body.value, arg |-> event.body]

Handle(name, event, outcome) ==
    /\ last = Idle
    /\ last' = HttpOp(name, event)
    /\ table' = outcome.table
    /\ ret' = outcome.ret
    /\ calls' = outcome.calls
    /\ resp' = outcome.resp
    /\ UNCHANGED <<keyClash, env, procs>>

\* The activities the enrichment process appends: one as found, one with a
\* comment already made on it.
EnrichedActivities ==
    {NewActivity(UrlA), ("userComment" :> JStr(<<"c">>)) @@ NewActivity(UrlA)}

Enrich ==
    \E activity \in EnrichedActivities :
        /\ last = Idle
        /\ Len(table) - 1 < MaxRows
        /\ last' = Op("insert", JStr(UrlA), "", JUndef, activity)
        /\ Apply(addActivity(table, activity))
        /\ keyClash' = (keyClash \/ HasKey(table, JStr(UrlA)))
        /\ UNCHANGED <<resp, env, procs>>

UpdateRating == \E event \in RatingEvents :
    Handle("update-rating", event, updateRatingHandler(table, event))

UpdateComment == \E event \in CommentEvents :
    Handle("update-comment", event, updateCommentHandler(table, event))

RemoveActivity == \E event \in RemoveEvents :
    Handle("remove-activity", event, removeActivityHandler(table, event))

GetActivities == \E event \in ListEvents :
    Handle("get-activities", event, getActivitiesHandler(table, event))

NextHttp ==
    \/ Enrich
    \/ UpdateRating
    \/ UpdateComment
    \/ RemoveActivity
    \/ GetActivities
    \/ Complete

SpecHttp == Init /\ [][NextHttp]_vars

---------------------------------------------------------------------------
(* The same operations and requests in whatever environment the process is *)
(* started in: any of the three variables may be missing.                  *)

InitAnyEnv ==
    /\ table = <<HEADER_ROW>>
    /\ last = Idle
    /\ ret = [kind |-> "none"]
    /\ calls = NoCalls
    /\ resp = NoResp
    /\ keyClash = FALSE
    /\ env \in Environments
    /\ procs = NoProcs

SpecEnv == InitAnyEnv /\ [][Next]_vars

SpecHttpEnv == InitAnyEnv /\ [][NextHttp]_vars

---------------------------------------------------------------------------
(* Overlapping calls of updateActivityField.  Each await of the function   *)
(* is a step of its own: the read that locates the row, the write of the   *)
(* cell, the read of the sheet after it.  Each caller makes one call, and  *)
(* rows are appended meanwhile.                                            *)

\* (field, value) arguments of the overlapping calls
RaceUpdates ==
    {<<"userRating", JNum(10)>>, <<"userRating", JNum(50)>>, <<"url", JStr(UrlB)>>,
     <<"bogus", JNum(10)>>, <<"userComment", JStr(<<"c">>)>>}

\* The call as it stands when it ends with how (a returned value or an error).
Ended(call, how) == [call EXCEPT !.pc = "done", !.ret = how]

\* The call after the locator answered rowIndex: Not-Found for null, the
\* Unknown-Field error for a field that is no column, else on to the write.
Located(call, rowIndex) ==
    IF rowIndex = 0 THEN Ended(call, [kind |-> "error", error |-> NotFoundError])
    ELSE IF ColumnLookup(call.field).kind = "undefined"
         THEN Ended(call, [kind |-> "error", error |-> UnknownFieldError])
    ELSE [call EXCEPT !.pc = "write", !.rowIndex = rowIndex]

\* Written keeping a cell that already holds a value: the first write wins.
WrittenIfEmpty(tbl, call) ==
    IF tbl[call.rowIndex][ColumnLookup(call.field).idx + 1] # <<>> THEN tbl
    ELSE WriteCell(tbl, call.rowIndex, ColumnLookup(call.field).idx, FormatCell(call.value))

\* Written as a whole row: the cell and the key, every other cell blank.
WrittenRow(tbl, call) ==
    [tbl EXCEPT ![call.rowIndex] =
        [c \in 1..Len(HEADER_ROW) |->
            IF c = ColumnLookup(call.field).idx + 1 THEN FormatCell(call.value)
            ELSE IF c = COLUMNS["url"] + 1 THEN @[c]
            ELSE <<>>]]

\* The sheet after the call's values.update, which the store refuses when
\* the field is an inherited property name and the range names no cell.
Written(tbl, call) ==
    IF ColumnLookup(call.field).kind = "inherited" THEN tbl
    ELSE WriteCell(tbl, call.rowIndex, ColumnLookup(call.field).idx, FormatCell(call.value))

\* The call after its values.update
AfterWrite(call, rank) ==
    IF ColumnLookup(call.field).kind = "inherited"
    THEN Ended(call, [kind |-> "error", error |-> StoreError])
    ELSE [call EXCEPT !.pc = "reread", !.wrote = rank]

\* How many callers have written.
Writes == Cardinality({q \in Callers : procs[q].wrote > 0})

CallStep(p) ==
    \E url \in Urls, fv \in RaceUpdates :
        /\ procs[p].pc = "idle"
        /\ procs' = [procs EXCEPT ![p] =
               IF getSheetsApi(env).kind = "error"
               THEN Ended(NoCall, [kind |-> "error", error |-> ConfigError])
               ELSE [NoCall EXCEPT !.pc = "locate", !.url = url, !.field = fv[1],
                                   !.value = fv[2], !.had = HasKey(table, url)]]
        /\ UNCHANGED <<table, last, ret, calls, resp, keyClash, env>>

LocateStep(p) ==
    /\ procs[p].pc = "locate"
    /\ procs' = [procs EXCEPT ![p] =
           Located(procs[p], findActivityRowIndex(table, procs[p].url))]
    /\ UNCHANGED <<table, last, ret, calls, resp, keyClash, env>>

WriteStep(p) ==
    /\ procs[p].pc = "write"
    /\ table' = Written(table, procs[p])
    /\ procs' = [procs EXCEPT ![p] = AfterWrite(procs[p], Writes + 1)]
    /\ UNCHANGED <<last, ret, calls, resp, keyClash, env>>

RereadStep(p) ==
    /\ procs[p].pc = "reread"
    /\ procs' = [procs EXCEPT ![p] =
           Ended(procs[p], Returned(table, getActivityByUrl(table, procs[p].url), 2, 1).ret)]
    /\ UNCHANGED <<table, last, ret, calls, resp, keyClash, env>>

\* A row appended while the calls run.
AppendStep ==
    \E u \in {UrlA, UrlB} :
        /\ Len(table) - 1 < MaxRows
        /\ table' = addActivity(table, NewActivity(u)).table
        /\ UNCHANGED <<last, ret, calls, resp, keyClash, env, procs>>

NextRace ==
    \/ \E p \in Callers : CallStep(p)
    \/ \E p \in Callers : LocateStep(p)
    \/ \E p \in Callers : WriteStep(p)
    \/ \E p \in Callers : RereadStep(p)
    \/ AppendStep

SpecRace == Init /\ [][NextRace]_vars

---------------------------------------------------------------------------
(* Overlapping calls of every writing operation: updateActivityField and   *)
(* markActivityRemoved as above, updateActivity with a step for each of    *)
(* its awaits (locate, values.get of the row, values.update of the row),   *)
(* and addActivity, one values.append.                                     *)

\* updates arguments of the overlapping updateActivity calls
RaceWholes == {"userRating" :> JNum(50), "url" :> JStr(UrlB)}

\* markActivityRemoved(url): updateActivityField(url, 'userRemoved', true)
MarkRemovedCallStep(p) ==
    \E url \in Urls :
        /\ procs[p].pc = "idle"
        /\ procs' = [procs EXCEPT ![p] =
               [NoCall EXCEPT !.pc = "locate", !.url = url, !.field = "userRemoved",
                              !.value = JTrue, !.had = HasKey(table, url)]]
        /\ UNCHANGED <<table, last, ret, calls, resp, keyClash, env>>

WholeCallStep(p) ==
    \E url \in Urls, updates \in RaceWholes :
        /\ procs[p].pc = "idle"
        /\ procs' = [procs EXCEPT ![p] =
               [NoCall EXCEPT !.pc = "locateRow", !.url = url, !.updates = updates,
                              !.had = HasKey(table, url)]]
        /\ UNCHANGED <<table, last, ret, calls, resp, keyClash, env>>

\* The updateActivity call after the locator answered rowIndex.
LocatedRow(call, rowIndex) ==
    IF rowIndex = 0 THEN Ended(call, [kind |-> "error", error |-> NotFoundError])
    ELSE [call EXCEPT !.pc = "readRow", !.rowIndex = rowIndex]

LocateRowStep(p) ==
    /\ procs[p].pc = "locateRow"
    /\ procs' = [procs EXCEPT ![p] =
           LocatedRow(procs[p], findActivityRowIndex(table, procs[p].url))]
    /\ UNCHANGED <<table, last, ret, calls, resp, keyClash, env>>

\* values.get of the located row, merged with the updates.
ReadRowStep(p) ==
    /\ procs[p].pc = "readRow"
    /\ procs' = [procs EXCEPT ![p] =
           [@ EXCEPT !.pc = "writeRow",
                     !.updatedActivity =
                         Merge(rowToActivity(table[procs[p].rowIndex]), procs[p].updates)]]
    /\ UNCHANGED <<table, last, ret, calls, resp, keyClash, env>>

\* values.update of the located row; the merged activity is returned.
WriteRowStep(p) ==
    /\ procs[p].pc = "writeRow"
    /\ table' = WriteMerged(table, procs[p].rowIndex, procs[p].updatedActivity).table
    /\ procs' = [procs EXCEPT ![p] =
           [Ended(@, [kind |-> "activity", activity |-> procs[p].updatedActivity])
               EXCEPT !.wrote = Writes + 1]]
    /\ UNCHANGED <<last, ret, calls, resp, keyClash, env>>

NextRaceAll ==
    \/ \E p \in Callers : CallStep(p)
    \/ \E p \in Callers : MarkRemovedCallStep(p)
    \/ \E p \in Callers : LocateStep(p)
    \/ \E p \in Callers : WriteStep(p)
    \/ \E p \in Callers : RereadStep(p)
    \/ \E p \in Callers : WholeCallStep(p)
    \/ \E p \in Callers : LocateRowStep(p)
    \/ \E p \in Callers : ReadRowStep(p)
    \/ \E p \in Callers : WriteRowStep(p)
    \/ AppendStep

SpecRaceAll == Init /\ [][NextRaceAll]_vars

---------------------------------------------------------------------------
(* The codec on its own: an activity is encoded with activityToRow and the *)
(* row decoded with rowToActivity.                                         *)

\* The fields every activity has, url not empty.
BaseActivities ==
    {[url |-> JStr(UrlA), shortName |-> JStr(n), alive |-> JBool(b),
      lastUpdated |-> JStr(d)] :
        n \in {<<>>, <<"Z">>}, b \in BOOLEAN, d \in {<<>>, <<"d">>}}

SomeTexts == {JStr(<<>>), JStr(<<"x">>), JStr(<<" ", "5", " ">>)}

SomeWholes == {JNum(0), JNum(150), JNum(-20)}

\* Values of each optional field, of the type the data model gives it.
OptionalValues ==
    [category |-> SomeTexts, openHours |-> SomeTexts, address |-> SomeTexts,
     services |-> {JArr(<<>>), JArr(<<<<"a">>>>), JArr(<<<<"a">>, <<"b", " ", "c">>>>),
                   JArr(<<<<"a", ",", "b">>>>)},
     description |-> SomeTexts,
     userRating |-> {JNum(10), JNum(50)},
     drivingMinutes |-> SomeWholes, transitMinutes |-> SomeWholes,
     distanceKm |-> {JNum(0), JNum(5), JNum(123), JNum(-5)},
     userComment |-> SomeTexts,
     userRemoved |-> {JTrue, JFalse}]

OneField == UNION {{f :> v : v \in OptionalValues[f]} : f \in DOMAIN OptionalValues}

\* The activities encoded: those with at most two optional fields set.
ValidActivities ==
    {x @@ y @@ b : x \in OneField, y \in OneField, b \in BaseActivities}
    \cup BaseActivities

RoundTrip ==
    \E activity \in ValidActivities :
        /\ last = Idle
        /\ last' = Op("roundTrip", activity["url"], "", JUndef, activity)
        /\ ret' = [kind |-> "decoded", row |-> activityToRow(activity),
                   activity |-> rowToActivity(activityToRow(activity))]
        /\ UNCHANGED <<table, calls, resp, keyClash, env, procs>>

NextCodec ==
    \/ RoundTrip
    \/ Complete

SpecCodec == Init /\ [][NextCodec]_vars

---------------------------------------------------------------------------
(* The locator on its own: findActivityRowIndex on a sheet with whatever   *)
(* key column the enrichment process and the sheet's editors left.         *)

\* The most data rows of a key column the locator is run on.
MaxKeys == 3

\* What a cell of the key column holds: nothing, a url, the header's text.
KeyCells == {<<>>, UrlA, UrlB, HEADER_ROW[1]}

KeyColumns == UNION {[1..n -> KeyCells] : n \in 0..MaxKeys}

\* A row with that key and nothing else.
RowKeyed(key) == [c \in 1..Len(HEADER_ROW) |-> IF c = 1 THEN key ELSE <<>>]

SheetOf(column) == <<HEADER_ROW>> \o [k \in 1..Len(column) |-> RowKeyed(column[k])]

LocateUrls == {JStr(key) : key \in KeyCells}

InitLocate ==
    /\ table \in {SheetOf(column) : column \in KeyColumns}
    /\ last = Idle
    /\ ret = [kind |-> "none"]
    /\ calls = NoCalls
    /\ resp = NoResp
    /\ keyClash = FALSE
    /\ env = Deployed
    /\ procs = NoProcs

Locate ==
    \E url \in LocateUrls :
        /\ last = Idle
        /\ last' = Op("locate", url, "", JUndef, NoActivity)
        /\ ret' = [kind |-> "index", index |-> findActivityRowIndex(table, url)]
        /\ calls' = [reads |-> 1, writes |-> 0]
        /\ UNCHANGED <<table, resp, keyClash, env, procs>>

NextLocate ==
    \/ Locate
    \/ Complete

SpecLocate == InitLocate /\ [][NextLocate]_vars

---------------------------------------------------------------------------
(* The boolean columns decoded: getAllActivities on a sheet whose alive and *)
(* userRemoved cells hold whatever an editor of the sheet typed.            *)

\* The most data rows of such a sheet.
MaxFlagged == 2

\* What a boolean cell holds: nothing, the literal, and texts near it.
FlagCells ==
    {<<>>, <<"t", "r", "u", "e">>, <<"T", "R", "U", "E">>, <<"1">>,
     <<"f", "a", "l", "s", "e">>}

\* A row keyed a with those alive and userRemoved cells.
FlaggedRow(alive, removed) ==
    [c \in 1..Len(HEADER_ROW) |->
        IF c = COLUMNS["url"] + 1 THEN UrlA
        ELSE IF c = COLUMNS["alive"] + 1 THEN alive
        ELSE IF c = COLUMNS["userRemoved"] + 1 THEN removed
        ELSE <<>>]

FlaggedRows == {FlaggedRow(alive, removed) : alive \in FlagCells, removed \in FlagCells}

FlaggedSheets ==
    {<<HEADER_ROW>> \o rows : rows \in UNION {[1..n -> FlaggedRows] : n \in 1..MaxFlagged}}

InitDecode ==
    /\ table \in FlaggedSheets
    /\ last = Idle
    /\ ret = [kind |-> "none"]
    /\ calls = NoCalls
    /\ resp = NoResp
    /\ keyClash = FALSE
    /\ env = Deployed
    /\ procs = NoProcs

NextDecode ==
    \/ ReadAll
    \/ Complete

SpecDecode == InitDecode /\ [][NextDecode]_vars

---------------------------------------------------------------------------
(* One updateActivityField call on a sheet of rows, bare or filled in, with *)
(* a value of each type the function formats.                               *)

\* A row with that key, a rating and a comment.
FilledRow(key) ==
    [c \in 1..Len(HEADER_ROW) |->
        IF c = COLUMNS["url"] + 1 THEN key
        ELSE IF c = COLUMNS["userRating"] + 1 THEN <<"5">>
        ELSE IF c = COLUMNS["userComment"] + 1 THEN <<"c">>
        ELSE <<>>]

FieldRows == {RowKeyed(UrlA), RowKeyed(UrlB), FilledRow(UrlA), FilledRow(UrlB)}

FieldSheets ==
    {<<HEADER_ROW>> \o rows : rows \in UNION {[1..n -> FieldRows] : n \in 0..MaxKeys}}

\* (field, value) arguments, a value of each type.
FormatUpdates ==
    {<<"userRating", JNum(45)>>, <<"userRating", JNull>>, <<"userRemoved", JTrue>>,
     <<"userRemoved", JFalse>>, <<"services", JArr(<<UrlA, UrlB>>)>>,
     <<"userComment", JStr(<<"h", "i">>)>>, <<"userComment", JUndef>>,
     <<"url", JStr(UrlB)>>, <<"bogus", JTrue>>}

InitField ==
    /\ table \in FieldSheets
    /\ last = Idle
    /\ ret = [kind |-> "none"]
    /\ calls = NoCalls
    /\ resp = NoResp
    /\ keyClash = FALSE
    /\ env = Deployed
    /\ procs = NoProcs

UpdateFieldOnSheet ==
    \E url \in Urls, fv \in FormatUpdates :
        /\ last = Idle
        /\ last' = Op("updateField", url, fv[1], fv[2], NoActivity)
        /\ Apply(updateActivityField(table, url, fv[1], fv[2]))
        /\ UNCHANGED <<resp, keyClash, env, procs>>

NextField == UpdateFieldOnSheet

SpecField == InitField /\ [][NextField]_vars

---------------------------------------------------------------------------
(* Vocabulary of the claims *)

\* The data rows of tbl whose key is url.
RowsKeyed(tbl, url) == {k \in 2..Len(tbl) : tbl[k][1] # <<>> /\ JStr(tbl[k][1]) = url}

\* The first data row keyed url (there is one).
FirstKeyed(tbl, url) == CHOOSE k \in RowsKeyed(tbl, url) : \A j \in RowsKeyed(tbl, url) : k <= j

\* Row k of tbl is marked removed.
RowRemoved(tbl, k) == tbl[k][15] = TrueText

\* The data rows of tbl that a read-all may return a record of.
LiveRows(tbl) == {k \in 2..Len(tbl) : tbl[k][1] # <<>> /\ ~RowRemoved(tbl, k)}

\* The records of list with that url.
WithUrl(list, url) == {i \in 1..Len(list) : list[i]["url"] = url}

Succeeded == ret.kind # "error"

\* a is a record with userRating the integer r.
HasRating(a, r) == IsActivity(a) /\ "userRating" \in DOMAIN a /\ a["userRating"] = JNum(10 * r)

IsRatingUpdate == last.op = "updateField" /\ last.field = "userRating"

\* The value of the last update is an integer in 1..5.
ValueIn1To5 == last.value.t = "number" /\ \E r \in 1..5 : last.value.n = 10 * r

---------------------------------------------------------------------------
(* Claims *)

\* C1: whatever sequence of insert, updateField, updateWhole and markRemoved
\* came before, the result of readAll holds no record whose userRemoved is true
\* and no record of a row whose url column is empty: every record has a url,
\* and there are no more records than rows that have a url and are not removed.
C1_ReadAllHidesRemovedAndEmpty ==
    last.op = "readAll" =>
        /\ \A i \in 1..Len(ret.list) :
              /\ IsActivity(ret.list[i])
              /\ ret.list[i]["url"].s # <<>>
              /\ ~Truthy(Prop(ret.list[i], "userRemoved"))
        /\ Len(ret.list) <= Cardinality(LiveRows(table))

C1_Witness ==
    /\ last.op = "readAll"
    /\ \E k \in 2..Len(table) : table[k][1] # <<>> /\ RowRemoved(table, k)
    /\ \E k \in 2..Len(table) : table[k][1] = <<>>

\* C2 as stated: after any sequence of Store Client operations from a table
\* without duplicate keys, readAll returns no two records with the same url.
C2_Original ==
    last.op = "readAll" =>
        \A i, j \in 1..Len(ret.list) : ret.list[i]["url"] = ret.list[j]["url"] => i = j

\* C2 amended: the same, for the sequences in which no insert adds a url that
\* is already the key of a data row and no update writes the url column.
C2_NoDuplicateUrlsWhileKeysKept ==
    (last.op = "readAll" /\ ~keyClash) =>
        \A i, j \in 1..Len(ret.list) : ret.list[i]["url"] = ret.list[j]["url"] => i = j

C2_Witness ==
    /\ last.op = "readAll"
    /\ ~keyClash
    /\ Len(ret.list) = 2
    /\ \E k \in 2..Len(table) : table[k][10] # <<>>

\* C3 as stated: after a successful markRemoved(url), with nothing in between,
\* readAll returns no record with that url.
C3_Original ==
    (last.op = "markRemoved" /\ Succeeded) =>
        WithUrl(getAllActivities(table), last.url) = {}

\* C3 amended: the same, when url is the key of exactly one data row.
C3_RemovedUrlNotRead ==
    (last.op = "markRemoved" /\ Succeeded /\ Cardinality(RowsKeyed(table, last.url)) = 1) =>
        WithUrl(getAllActivities(table), last.url) = {}

C3_Witness ==
    /\ last.op = "markRemoved"
    /\ Succeeded
    /\ Cardinality(RowsKeyed(table, last.url)) = 1
    /\ Len(getAllActivities(table)) = 1

\* C4 as stated: after updateField(url, 'userRating', r) with r in 1..5 on a
\* table with a row keyed url, readByKey(url) returns a record with userRating r.
C4_Original ==
    (IsRatingUpdate /\ Succeeded /\ ValueIn1To5) =>
        HasRating(getActivityByUrl(table, last.url), last.value.n \div 10)

\* C4 amended: the same, when the first data row keyed url is not marked removed.
C4_RatingReadBack ==
    (IsRatingUpdate /\ Succeeded /\ ValueIn1To5
     /\ ~RowRemoved(table, FirstKeyed(table, last.url))) =>
        HasRating(getActivityByUrl(table, last.url), last.value.n \div 10)

C4_Witness ==
    /\ IsRatingUpdate /\ Succeeded /\ last.value = JNum(50)
    /\ ~RowRemoved(table, FirstKeyed(table, last.url))
    /\ Cardinality(RowsKeyed(table, last.url)) = 2
    /\ ret.kind = "activity"
    /\ HasRating(ret.activity, 5)

\* C5: a successful updateField returns a present record, and that record is
\* the decode of the row it wrote to as the row is after the write.
C5_ReturnsThePersistedRecord ==
    [][(last'.op \in {"updateField", "markRemoved"} /\ ret'.kind # "error") =>
          /\ ret'.kind = "activity"
          /\ ret'.activity = rowToActivity(table'[FirstKeyed(table, last'.url)])]_vars

\* C6: updateField on a url that is the key of no data row fails with the
\* Not-Found error, writes nothing and leaves every cell as it was.
C6_UnknownUrlNotFound ==
    [][(last'.op = "updateField" /\ RowsKeyed(table, last'.url) = {}) =>
          /\ ret' = [kind |-> "error", error |-> NotFoundError]
          /\ calls'.writes = 0
          /\ table' = table]_vars

C6_Witness ==
    /\ last.op = "updateField"
    /\ last.field = "userRating"
    /\ RowsKeyed(table, last.url) = {}
    /\ ret = [kind |-> "error", error |-> NotFoundError]
    /\ Len(table) > 1

\* C7: updateField with a field that is none of the 15 column names fails with
\* the Unknown-Field error and issues no write when the url is the key of a
\* row, and with the Not-Found error when it is not.
C7_UnknownFieldRejected ==
    [][(last'.op = "updateField" /\ last'.field \notin DOMAIN COLUMNS) =>
          /\ calls'.writes = 0
          /\ table' = table
          /\ ret'.kind = "error"
          /\ ret'.error = IF RowsKeyed(table, last'.url) = {} THEN NotFoundError
                          ELSE UnknownFieldError]_vars

\* C8 as stated: on a table with a live row keyed url, after
\* updateField(url, 'userRating', null) the rating cell of the located row is
\* empty and readByKey(url) returns a record without userRating.
C8_Original ==
    (IsRatingUpdate /\ Succeeded /\ last.value = JNull
     /\ RowsKeyed(table, last.url) \cap LiveRows(table) # {}) =>
        /\ table[FirstKeyed(table, last.url)][10] = <<>>
        /\ IsActivity(getActivityByUrl(table, last.url))
        /\ "userRating" \notin DOMAIN getActivityByUrl(table, last.url)

\* C8 amended: the same, when the first data row keyed url is a live row.
C8_NullClearsRating ==
    (IsRatingUpdate /\ Succeeded /\ last.value = JNull
     /\ ~RowRemoved(table, FirstKeyed(table, last.url))) =>
        /\ table[FirstKeyed(table, last.url)][10] = <<>>
        /\ IsActivity(getActivityByUrl(table, last.url))
        /\ "userRating" \notin DOMAIN getActivityByUrl(table, last.url)

C8_Witness ==
    /\ IsRatingUpdate /\ Succeeded /\ last.value = JNull
    /\ ~RowRemoved(table, FirstKeyed(table, last.url))
    /\ ret.kind = "activity"
    /\ \E k \in 2..Len(table) : table[k][10] # <<>>

IsRatingPut ==
    /\ last.op = "update-rating"
    /\ last.method = "PUT"
    /\ last.arg.parses
    /\ Truthy(last.url)

\* The rating of the last request is a number below 1 or above 5.
RatingOutOfRange == last.value.t = "number" /\ (last.value.n < 10 \/ last.value.n > 50)

\* C9: the update-rating handler answers 400, with no backing-store call, every
\* PUT with a url whose rating is a number below 1 or above 5; a rating that is
\* null or absent passes validation and is the request to clear the rating:
\* the store is called, and on success the located row's rating cell is empty.
C9_OutOfRangeRatingRejected ==
    IsRatingPut =>
        /\ RatingOutOfRange =>
              (resp.statusCode = 400 /\ calls = NoCalls /\ ret.kind = "none")
        /\ last.value \in {JNull, JUndef} =>
              /\ resp.statusCode # 400
              /\ calls.reads >= 1
              /\ resp.statusCode = 200 =>
                    (calls.writes = 1 /\ table[FirstKeyed(table, last.url)][10] = <<>>)

C9_Witness ==
    /\ IsRatingPut
    /\ last.value = JNum(60)
    /\ resp.statusCode = 400
    /\ HasKey(table, last.url)
    /\ \E k \in 2..Len(table) : table[k][10] = <<"5">>

\* C10: from a sheet whose userRating cells are empty or an integer in 1..5,
\* whatever rating values the update-rating requests carry, every record that
\* readAll returns has no userRating or an integer in 1..5.
C10_RatingsStayIn1To5 ==
    \A i \in 1..Len(getAllActivities(table)) :
        \/ "userRating" \notin DOMAIN getAllActivities(table)[i]
        \/ \E r \in 1..5 : getAllActivities(table)[i]["userRating"] = JNum(10 * r)

\* The last request went to a write handler with that handler's own method
\* and a body that is a JSON object.
IsWriteRequest ==
    /\ last.op \in {"update-rating", "update-comment", "remove-activity"}
    /\ last.method = (IF last.op = "remove-activity" THEN "DELETE" ELSE "PUT")
    /\ last.arg.parses

\* C11: a write handler (update rating, update comment, remove activity) that
\* receives a request of its own method whose body has no url field or an
\* empty url answers 400 and performs no backing-store read or write.
C11_MissingUrlRejected ==
    (IsWriteRequest /\ last.url \in {JUndef, JStr(<<>>)}) =>
        /\ resp.statusCode = 400
        /\ calls = NoCalls
        /\ ret.kind = "none"

C11_Witness ==
    /\ IsWriteRequest
    /\ last.op = "remove-activity"
    /\ last.url = JStr(<<>>)
    /\ resp.statusCode = 400
    /\ \E k \in 2..Len(table) : table[k][1] = <<"a">>

\* C12: in every write handler a failure of the Store Client call is answered
\* 404 exactly when it is the Not-Found error (the url is the key of no data
\* row) and 500 when it is any other failure; a 404 is never the answer to
\* another failure, and a 500 never the answer to Not-Found.
C12_NotFoundAnd500Apart ==
    IsWriteRequest =>
        /\ ret.kind = "error" =>
              resp.statusCode = (IF ret.error = NotFoundError THEN 404 ELSE 500)
        /\ resp.statusCode = 404 =>
              /\ ret = [kind |-> "error", error |-> NotFoundError]
              /\ RowsKeyed(table, last.url) = {}
        /\ (resp.statusCode = 500 /\ ret.kind = "error") => ret.error # NotFoundError

C12_Witness ==
    /\ IsWriteRequest
    /\ last.op = "update-comment"
    /\ ret = [kind |-> "error", error |-> NotFoundError]
    /\ resp.statusCode = 404
    /\ Len(table) > 1

\* The last request was a PUT the rating or the comment handler answered 200.
IsUpdateAnswered200 ==
    /\ last.op \in {"update-rating", "update-comment"}
    /\ last.method = "PUT"
    /\ resp.statusCode = 200

\* C13: every 200 response of the update-rating and update-comment handlers to
\* a PUT has a body with success = true and an activity field that is a present
\* record whose url is the url of the request.
C13_SuccessCarriesTheActivity ==
    IsUpdateAnswered200 =>
        /\ resp.body.success = TRUE
        /\ "activity" \in DOMAIN resp.body
        /\ IsActivity(resp.body.activity)
        /\ resp.body.activity["url"] = last.url

\* C14: every handler answers an OPTIONS request with status 200, an empty
\* body, the permissive origin header and an allowed-methods header naming the
\* route's own method and OPTIONS, whether or not the body parses, and makes
\* no backing-store call.
C14_PreflightAnswer ==
    (last.op \in {"update-rating", "update-comment", "remove-activity", "get-activities"}
     /\ last.method = "OPTIONS") =>
        /\ resp.statusCode = 200
        /\ resp.body = [empty |-> TRUE]
        /\ resp.headers["Access-Control-Allow-Origin"] = "*"
        /\ resp.headers["Access-Control-Allow-Methods"] =
              (CASE last.op = "get-activities" -> "GET, OPTIONS"
                 [] last.op = "remove-activity" -> "DELETE, OPTIONS"
                 [] OTHER -> "PUT, OPTIONS")
        /\ calls = NoCalls
        /\ ret.kind = "none"

C14_Witness ==
    /\ last.op = "remove-activity"
    /\ last.method = "OPTIONS"
    /\ ~last.arg.parses
    /\ resp.statusCode = 200
    /\ Len(table) > 1

\* C15: for every valid activity a (url not empty, each optional field absent
\* or set), the decode of the encode of a is a record, and every field set in
\* a has the same value in it, except the fields whose value encodes to the
\* empty cell (an empty string, userRemoved = false).
C15_RoundTripKeepsSetFields ==
    last.op = "roundTrip" =>
        /\ IsActivity(ret.activity)
        /\ \A f \in DOMAIN last.arg :
              \/ ret.row[COLUMNS[f] + 1] = <<>>
              \/ (f \in DOMAIN ret.activity /\ ret.activity[f] = last.arg[f])

C15_Witness ==
    /\ last.op = "roundTrip"
    /\ "services" \in DOMAIN last.arg
    /\ Len(last.arg["services"].a) = 2
    /\ "distanceKm" \in DOMAIN last.arg
    /\ last.arg["distanceKm"] = JNum(5)
    /\ ret.activity = last.arg

\* The last step handled a request.
IsRequest ==
    last.op \in {"update-rating", "update-comment", "remove-activity", "get-activities"}

\* The round trips of the last request: its read and write calls.
RoundTrips == calls.reads + calls.writes

\* C16 as stated: every handled request performs at most two round trips to
\* the backing store, and a single-field update that succeeds costs two.
C16_Original ==
    IsRequest =>
        /\ RoundTrips <= 2
        /\ (IsWriteRequest /\ resp.statusCode = 200) => RoundTrips = 2

\* C16 amended: every handled request performs at most three round trips, and
\* a single-field update that succeeds costs three: the read that locates the
\* row, the write of the cell and the read of the whole sheet after it.
C16_AtMostThreeRoundTrips ==
    IsRequest =>
        /\ RoundTrips <= 3
        /\ (IsWriteRequest /\ resp.statusCode = 200) => calls = [reads |-> 2, writes |-> 1]

C16_Witness ==
    /\ IsWriteRequest
    /\ last.op = "update-comment"
    /\ resp.statusCode = 200
    /\ calls = [reads |-> 2, writes |-> 1]
    /\ ret.kind = "activity"

\* C18: no Store Client operation deletes a row: the number of rows never
\* decreases, only insert increases it, by exactly one, and markRemoved changes
\* no cell but the userRemoved cell of the first data row keyed url, which it
\* sets to "true".
C18_RowsAreNeverDeleted ==
    [][/\ Len(table') >= Len(table)
       /\ Len(table') # Len(table) =>
             (last'.op = "insert" /\ Len(table') = Len(table) + 1)
       /\ last'.op = "markRemoved" =>
             \A k \in 1..Len(table), c \in 1..Len(HEADER_ROW) :
                 table'[k][c] # table[k][c] =>
                     /\ RowsKeyed(table, last'.url) # {}
                     /\ k = FirstKeyed(table, last'.url)
                     /\ c = COLUMNS["userRemoved"] + 1
                     /\ table'[k][c] = TrueText]_vars

C18_Witness ==
    /\ last.op = "markRemoved"
    /\ Succeeded
    /\ Cardinality(RowsKeyed(table, last.url)) = 2
    /\ RowRemoved(table, FirstKeyed(table, last.url))
    /\ \E k \in RowsKeyed(table, last.url) : ~RowRemoved(table, k)

\* C20: for every key column and every url, the locator returns the position,
\* counted from 1 with the header row, of the first data row whose key is url
\* (no data row before it has that key), never the header row's position, even
\* for the url that is the header's text, and returns not-found (0 here)
\* exactly when no data row has that key.
C20_LocatorFindsFirstDataRow ==
    last.op = "locate" =>
        /\ ret.index # 1
        /\ ret.index = 0 <=> RowsKeyed(table, last.url) = {}
        /\ ret.index # 0 =>
              /\ ret.index \in 2..Len(table)
              /\ table[ret.index][1] = last.url.s
              /\ \A j \in 2..(ret.index - 1) : table[j][1] # last.url.s

C20_Witness ==
    /\ last.op = "locate"
    /\ last.url = JStr(HEADER_ROW[1])
    /\ Len(table) = 4
    /\ table[2][1] = UrlA
    /\ table[3][1] = HEADER_ROW[1]
    /\ table[4][1] = HEADER_ROW[1]
    /\ ret.index = 3

\* The service-account email or the private key is missing from the environment.
CredentialsMissing == ~env.email \/ ~env.key

SameCellRaceOver ==
    /\ \A p \in Callers : procs[p].pc = "done" /\ procs[p].had
    /\ procs[1].url = procs[2].url
    /\ procs[1].field = procs[2].field
    /\ procs[1].field \in DOMAIN COLUMNS

\* The caller whose write came last.
LastWriter == CHOOSE p \in Callers : procs[p].wrote = Cardinality(Callers)

\* Neither call ended with an error, and the cell they wrote holds the
\* formatted value of the call that wrote last.
LastWriteWins ==
    /\ \A p \in Callers : procs[p].ret.kind # "error" /\ procs[p].wrote > 0
    /\ table[procs[LastWriter].rowIndex][COLUMNS[procs[LastWriter].field] + 1]
           = FormatCell(procs[LastWriter].value)
    /\ procs[1].rowIndex = procs[2].rowIndex

\* C17 as stated: when two updateField calls for the same url and the same
\* field overlap, however their locate, write and re-read steps interleave,
\* both complete without error and the cell holds the formatted value of
\* whichever write came last.
C17_Original == SameCellRaceOver => LastWriteWins

\* C17 amended: the same, for a field other than url, the key column.
C17_LastWriteWins ==
    (SameCellRaceOver /\ procs[1].field # "url") => LastWriteWins

C17_Witness ==
    /\ SameCellRaceOver
    /\ procs[1].field = "userRating"
    /\ procs[1].value = JNum(10)
    /\ procs[2].value = JNum(50)
    /\ procs[1].wrote = 1
    /\ procs[2].wrote = 2
    /\ procs[1].ret.kind = "activity"
    /\ HasRating(procs[1].ret.activity, 5)
    /\ table[procs[1].rowIndex][10] = <<"5">>

\* Every row of tbl2 but row k is the row of tbl1 at the same position, and
\* the two have as many rows.
SameButRow(tbl1, tbl2, k) ==
    /\ Len(tbl2) = Len(tbl1)
    /\ \A j \in 1..Len(tbl1) : j # k => tbl2[j] = tbl1[j]

\* updates laid over current, the keys of updates winning.
Overlaid(current, updates) ==
    [f \in DOMAIN current \cup DOMAIN updates |->
        IF f \in DOMAIN updates THEN updates[f] ELSE current[f]]

\* Row k of tbl2 is the encode of the decode of row k of tbl1 with updates
\* laid over it, and no other row differs.
MergedOverRow(tbl1, tbl2, k, updates) ==
    /\ tbl2[k] = activityToRow(Overlaid(rowToActivity(tbl1[k]), updates))
    /\ \A f \in DOMAIN updates : updates[f] = JUndef => tbl2[k][COLUMNS[f] + 1] = <<>>
    /\ SameButRow(tbl1, tbl2, k)

C22_InsertAppendsOneRow ==
    [][last'.op = "insert" =>
          /\ ret'.kind = "activity"
          /\ Len(table') = Len(table) + 1
          /\ table'[Len(table')] = activityToRow(last'.arg)
          /\ \A j \in 1..Len(table) : table'[j] = table[j]]_vars

C22_Witness ==
    /\ last.op = "insert"
    /\ ret.kind = "activity"
    /\ Len(table) = 3
    /\ table[2][1] = UrlA
    /\ RowRemoved(table, 2)
    /\ table[3] = activityToRow(NewActivity(UrlA))

\* The cell is exactly the text true.
ExactlyTrue(cell) == cell = <<"t", "r", "u", "e">>

\* The decode of a row has alive true, and has userRemoved (true), just when
\* the cell is exactly the text true.
FlagsDecodedExactly(row, activity) ==
    /\ IsActivity(activity)
    /\ activity["alive"] = JBool(ExactlyTrue(row[3]))
    /\ "userRemoved" \in DOMAIN activity <=> ExactlyTrue(row[15])
    /\ "userRemoved" \in DOMAIN activity => activity["userRemoved"] = JTrue

\* C23: decode sets alive to true, and sets userRemoved, only when the cell is
\* exactly the string "true"; for every other cell ("TRUE", "1", "false",
\* empty) alive is false and userRemoved is absent, and readAll returns the
\* row as a live record.
C23_BooleanCellsDecodeExactly ==
    last.op = "readAll" =>
        /\ \A k \in 2..Len(table) : FlagsDecodedExactly(table[k], rowToActivity(table[k]))
        /\ \A k \in 2..Len(table) :
              ~ExactlyTrue(table[k][15]) =>
                  \E i \in 1..Len(ret.list) : ret.list[i] = rowToActivity(table[k])
        /\ Len(ret.list) = Cardinality({k \in 2..Len(table) : ~ExactlyTrue(table[k][15])})
        /\ \A i \in 1..Len(ret.list) : "userRemoved" \notin DOMAIN ret.list[i]

C23_Witness ==
    /\ last.op = "readAll"
    /\ Len(table) = 3
    /\ table[2][15] = <<"T", "R", "U", "E">>
    /\ table[2][3] = <<"1">>
    /\ table[3][15] = <<"t", "r", "u", "e">>
    /\ Len(ret.list) = 1
    /\ ret.list[1]["alive"] = JFalse

OptionalFields ==
    {"category", "openHours", "address", "services", "description", "userRating",
     "drivingMinutes", "transitMinutes", "distanceKm", "userComment", "userRemoved"}

\* Each optional field of the record is absent or present with a truthy value.
OptionalsPresentOrAbsent(a) ==
    \A f \in OptionalFields \cap DOMAIN a : Truthy(a[f])

\* C24: every record a Store Client operation returns (readAll, readByKey,
\* updateField, updateWhole) has each optional field either absent or present
\* with a truthy value: none is present with an empty, zero, NaN or undefined
\* value.
C24_OptionalFieldsPresentOrAbsent ==
    /\ (last.op \in {"readByKey", "updateField", "updateWhole"} /\ ret.kind = "activity") =>
          OptionalsPresentOrAbsent(ret.activity)
    /\ last.op = "readAll" =>
          \A i \in 1..Len(ret.list) : OptionalsPresentOrAbsent(ret.list[i])

\* The last request was a PUT the comment handler answered 200.
IsCommentStored ==
    /\ last.op = "update-comment"
    /\ last.method = "PUT"
    /\ resp.statusCode = 200

\* The comment of the last request asks for the comment to be cleared: it is
\* null, absent, empty or white space only.
ClearsComment ==
    \/ last.value.t \in {"null", "undefined"}
    \/ last.value.t = "string" /\ \A i \in 1..Len(last.value.s) : last.value.s[i] = " "

\* The userComment cell of the located row holds the comment without the
\* white space around it, and nothing when the comment is to be cleared.
CommentCellTrimmed ==
    /\ last.value = JStr(<<" ", "h", "i", " ">>) =>
          table[FirstKeyed(table, last.url)][14] = <<"h", "i">>
    /\ ClearsComment => table[FirstKeyed(table, last.url)][14] = <<>>

\* Neither the record in the response nor the record a read by that url
\* returns has a userComment field.
NoCommentRead ==
    /\ "activity" \in DOMAIN resp.body => "userComment" \notin DOMAIN resp.body.activity
    /\ "userComment" \notin DOMAIN getActivityByUrl(table, last.url)

\* C25 as stated: the update-comment handler stores the comment trimmed; a
\* comment that is null, absent, empty or white space only clears the cell, and
\* the returned record and every later read of the record have no userComment.
C25_Original ==
    IsCommentStored => (CommentCellTrimmed /\ (ClearsComment => NoCommentRead))

\* C25 amended: the cell of the located row is as stated; the returned record
\* and the later reads have no userComment when the located row, the first
\* data row keyed url, is not marked removed.
C25_CommentTrimmedOrCleared ==
    IsCommentStored =>
        /\ CommentCellTrimmed
        /\ (ClearsComment /\ ~RowRemoved(table, FirstKeyed(table, last.url))) => NoCommentRead

C25_Witness ==
    /\ IsCommentStored
    /\ last.value = JStr(<<" ", " ">>)
    /\ ~RowRemoved(table, FirstKeyed(table, last.url))
    /\ ret.kind = "activity"
    /\ Cardinality(RowsKeyed(table, last.url)) = 2
    /\ \E k \in RowsKeyed(table, last.url) : table[k][14] = <<"c">>

\* The text of the formatted value: nothing for null and undefined, true or
\* false for a boolean, the JSON text for an array, the string form otherwise.
FormattedText(value) ==
    CASE value.t \in {"null", "undefined"} -> <<>>
      [] value.t = "boolean" ->
            (IF value.n = 1 THEN <<"t", "r", "u", "e">> ELSE <<"f", "a", "l", "s", "e">>)
      [] value = JArr(<<UrlA, UrlB>>) -> <<"[", "\"", "a", "\"", ",", "\"", "b", "\"", "]">>
      [] value = JNum(45) -> <<"4", ".", "5">>
      [] value.t = "string" -> value.s

\* tbl2 is tbl1 with the cell in row k and column c holding text: as many
\* rows, in the same order, and every other cell as it was.
OneCellSet(tbl1, tbl2, k, c, text) ==
    /\ Len(tbl2) = Len(tbl1)
    /\ \A j \in 1..Len(tbl1), d \in 1..Len(HEADER_ROW) :
          tbl2[j][d] = IF j = k /\ d = c THEN text ELSE tbl1[j][d]

\* C26: a successful updateField(url, field, value) sets one cell of the
\* table, the cell of the located row in the column of field, to the formatted
\* value (null and undefined to the empty string, a boolean to "true" or
\* "false", an array to its JSON text, anything else to its string form);
\* every other cell, the number of rows and their order are unchanged.
C26_FieldUpdateSetsOneCell ==
    [][(last'.op = "updateField" /\ ret'.kind # "error") =>
          /\ RowsKeyed(table, last'.url) # {}
          /\ last'.field \in DOMAIN COLUMNS
          /\ OneCellSet(table, table', FirstKeyed(table, last'.url),
                        COLUMNS[last'.field] + 1, FormattedText(last'.value))]_vars

C26_Witness ==
    /\ last.op = "updateField"
    /\ last.value = JArr(<<UrlA, UrlB>>)
    /\ last.url = JStr(UrlB)
    /\ ret.kind = "activity"
    /\ Len(table) = 4
    /\ table[2][1] = UrlA
    /\ table[3] = [FilledRow(UrlB) EXCEPT ![8] = <<"[", "\"", "a", "\"", ",", "\"", "b", "\"", "]">>]
    /\ table[4] = FilledRow(UrlB)

\* The call has written its cell.
HasWritten(call) == call.wrote > 0

\* The cell the call wrote holds the value the call wrote.
CellPersisted(tbl, call) ==
    tbl[call.rowIndex][COLUMNS[call.field] + 1] = FormatCell(call.value)

\* Both calls were for one url and for different fields, and both have written.
BothWroteDifferentFields(call1, call2) ==
    /\ HasWritten(call1) /\ HasWritten(call2)
    /\ call1.url = call2.url
    /\ call1.field # call2.field

\* C27: when two overlapping updateField calls for the same url and different
\* fields have both written, under any interleaving of their locate, write and
\* re-read steps, the sheet holds both written values, from the second write
\* until both calls have completed and after: neither overwrites the other's.
C27_BothFieldsPersisted ==
    BothWroteDifferentFields(procs[1], procs[2]) =>
        CellPersisted(table, procs[1]) /\ CellPersisted(table, procs[2])

C27_Witness ==
    /\ BothWroteDifferentFields(procs[1], procs[2])
    /\ procs[1].pc = "done" /\ procs[2].pc = "done"
    /\ procs[1].ret.kind = "activity" /\ procs[2].ret.kind = "activity"
    /\ procs[1].rowIndex = procs[2].rowIndex
    /\ procs[1].field = "userRating" /\ procs[2].field = "userComment"
    /\ procs[1].wrote = 1 /\ procs[2].wrote = 2
    /\ "userComment" \in DOMAIN procs[1].ret.activity
    /\ HasRating(procs[2].ret.activity, 5)

\* The call is at its write: the values.update of updateActivityField or of
\* updateActivity.
AtWrite(call) == call.pc \in {"write", "writeRow"}

\* The row at the position the locator gave the call has the call's url as
\* its key.
RowStillKeyed(tbl, call) ==
    tbl[call.rowIndex][COLUMNS["url"] + 1] # <<>>
    /\ JStr(tbl[call.rowIndex][COLUMNS["url"] + 1]) = call.url

\* The call changes a key: updateField of the field url, or updateWhole with
\* a url among its updates.
ChangesKey(call) == call.field = "url" \/ "url" \in DOMAIN call.updates

\* C28 as stated: under any interleaving of overlapping insert, updateField,
\* updateWhole and markRemoved operations, the row at the position an
\* operation got from the locator for url still has the key url when the
\* operation writes.
C28_Original ==
    [][\A p \in Callers :
          (AtWrite(procs[p]) /\ ~AtWrite(procs'[p])) => RowStillKeyed(table, procs[p])]_vars

\* C28: under any interleaving of overlapping insert, updateField, updateWhole
\* and markRemoved operations none of which changes a key (no updateField of
\* the field url, no updateWhole with a url among its updates), the row at
\* the position an operation got from the locator for url still has the key
\* url when the operation writes: rows are never moved or deleted.
C28_WriteLandsOnLocatedKey ==
    [][\A p \in Callers :
          (/\ AtWrite(procs[p]) /\ ~AtWrite(procs'[p])
           /\ \A q \in Callers : ~ChangesKey(procs[q]))
          => RowStillKeyed(table, procs[p])]_vars

\* An updateWhole has written the row it located while a markRemoved, which
\* located the same row, wrote between its read and its write, and a row was
\* appended meanwhile: the row has its key and the earlier write is lost.
C28_Witness ==
    /\ procs[1].pc = "done" /\ procs[1].updates = ("userRating" :> JNum(50))
    /\ procs[1].wrote = 2
    /\ procs[2].field = "userRemoved" /\ procs[2].wrote = 1
    /\ procs[1].url = procs[2].url
    /\ procs[1].rowIndex = 2 /\ procs[2].rowIndex = 2
    /\ ~procs[1].had
    /\ Len(table) = 3
    /\ RowStillKeyed(table, procs[1])
    /\ "userRemoved" \notin DOMAIN procs[1].ret.activity
    /\ ~RowRemoved(table, 2)

\* The last request was a remove-activity request that succeeded.
RemoveSucceeded(op, response) ==
    op.op = "remove-activity" /\ op.method = "DELETE" /\ response.statusCode = 200

\* The last request was a list-activities request that succeeded.
ListSucceeded(op, response) ==
    op.op = "get-activities" /\ op.method = "GET" /\ response.statusCode = 200

\* The list shows the rows of tbl that are not marked removed and no other:
\* as many records as such rows, each with the key of one of them, none
\* marked removed.
ShowsLiveRowsOnly(list, tbl) ==
    /\ Len(list) = Cardinality(LiveRows(tbl))
    /\ \A i \in 1..Len(list) :
          /\ "userRemoved" \notin DOMAIN list[i]
          /\ \E k \in LiveRows(tbl) : list[i]["url"] = JStr(tbl[k][1])

\* C29: a remove-activity request that succeeds marks the located row
\* removed; no request through the handlers (list, update rating, update
\* comment, remove) writes anything but "true" to a userRemoved cell, so a row
\* marked removed stays marked; and a list-activities result shows the rows
\* not marked removed only: the removed row never appears in it again.
C29_RemovedRowsStayHidden ==
    [][/\ \A k \in 2..Len(table) :
              /\ RowRemoved(table, k) => RowRemoved(table', k)
              /\ table'[k][15] # table[k][15] => table'[k][15] = <<"t", "r", "u", "e">>
       /\ RemoveSucceeded(last', resp') =>
              (RowsKeyed(table, last'.url) # {}
               /\ RowRemoved(table', FirstKeyed(table, last'.url)))
       /\ ListSucceeded(last', resp') => ShowsLiveRowsOnly(resp'.body, table')]_vars

\* A list answered after the first row keyed a was removed and then rated:
\* the row is not in the list, the row appended after it is.
C29_Witness ==
    /\ ListSucceeded(last, resp)
    /\ Len(table) = 3
    /\ RowRemoved(table, 2)
    /\ table[2][10] = <<"5">>
    /\ ~RowRemoved(table, 3)
    /\ Len(resp.body) = 1
    /\ "userRating" \notin DOMAIN resp.body[1]

===========================================================================
